---- MODULE Spec2Model ----
(***************************************************************************)
(* The in-memory service registry of pkg/discovery/memorypackage/memory.go *)
(* (Registry: Register, Deregister, ReportHealthyState, ServiceAddresses). *)
(*                                                                         *)
(* Spec      one caller at a time: every handler is one atomic action      *)
(*           (Lock, body, deferred Unlock), the clock advances between     *)
(*           calls and between the iterations of ServiceAddresses' loop.   *)
(* SpecConc  the callers of Procs run the handlers step by step under the  *)
(*           registry's sync.RWMutex.                                      *)
(* SpecLive  SpecConc's callers under a fair scheduler.                    *)
(*                                                                         *)
(* The in-memory rating repository of                                      *)
(* rating/internal/repository/memory/memory.go (Repository: Put, Get).     *)
(*                                                                         *)
(* SpecRating  one caller at a time: Put and Get are atomic actions.       *)
(***************************************************************************)
EXTENDS Integers, Sequences, FiniteSets, TLC

\* 5 * time.Second of ServiceAddresses, in clock units of one second.
Window == 5

\* The last instant the clock reaches.
MaxTime == 6

\* The instants at which time.Now() is read: a registration instant and the
\* instants from its window edge on (0, 0+Window, 0+Window+1, ...).
Clock == {0} \cup (Window .. MaxTime)

Names == {"s1", "s2"}
IDs == {"i1", "i2"}
HostPorts == {"a1", "a2"}

\* The (name, id) pairs the callers use: two instances of s1, one of s2.
Keys == {<<"s1", "i1">>, <<"s1", "i2">>, <<"s2", "i1">>}

\* The record types, record IDs and ratings the callers of the rating
\* repository use, and the number of Puts they make.
RecordTypes == {"movie", "show"}
RecordIDs == {"r1", "r2"}
Ratings == {"v1", "v2"}
MaxPuts == 3

\* error values of the handlers
Nil == "nil"
RepositoryErrNotFound == "repository.ErrNotFound"
ErrNotFound == "discovery.ErrNotFound"
ErrServiceNotRegistered == "service is not registered yet"
ErrInstanceNotRegistered == "service instance is not registered yet"

VARIABLES
    serviceAddrs,   \* Registry.serviceAddrs: name -> (id -> serviceInstance)
    now,            \* the value time.Now() returns
    last,           \* history: the call that returned last, with its results
    touched,        \* history: per (name, id), the last call that wrote its record
    mu,             \* the embedded sync.RWMutex: its writer and its readers
    calls,          \* per caller, the call it is in: position, arguments, locals
    data,           \* Repository.data: recordType -> (recordID -> []Rating)
    puts,           \* history: the Puts that returned, in order
    got             \* history: the Get that returned last, with its results

vars == <<serviceAddrs, now, last, touched, mu, calls, data, puts, got>>

\* the state of the registry and of its callers
registry == <<serviceAddrs, now, last, touched, mu, calls>>

\* the state of the rating repository
rating == <<data, puts, got>>

\* the state of the callers of SpecConc
conc == <<mu, calls>>

-----------------------------------------------------------------------------
(* Go maps as functions on a finite domain *)

EmptyMap == [k \in {} |-> k]

\* m[k] = v
MapPut(m, k, v) == [x \in (DOMAIN m) \cup {k} |-> IF x = k THEN v ELSE m[x]]

\* delete(m, k)
MapDelete(m, k) == [x \in (DOMAIN m) \ {k} |-> m[x]]

\* r.serviceAddrs[name], the nil map when name is no key
Instances(sa, name) == IF name \in DOMAIN sa THEN sa[name] ELSE EmptyMap

\* &serviceInstance{hostPort: hostPort, lastActive: time.Now()}
serviceInstance(hostPort, t) == [hostPort |-> hostPort, lastActive |-> t]

HasRecord(sa, name, id) == name \in DOMAIN sa /\ id \in DOMAIN sa[name]

-----------------------------------------------------------------------------
(* The handlers' bodies, as functions of the map, the arguments and the clock *)

\* mutant of RegisterMap: the record is written without reading the clock
\* (lastActive left at its zero value)
RegisterMapZeroTime(sa, id, name, hostPort, t) ==
    LET sa1 == IF name \notin DOMAIN sa THEN MapPut(sa, name, EmptyMap) ELSE sa
    IN  MapPut(sa1, name, MapPut(sa1[name], id, serviceInstance(hostPort, 0)))

\* mutant of RegisterMap: a record that exists keeps its address, only its
\* lastActive is refreshed
RegisterMapKeepAddr(sa, id, name, hostPort, t) ==
    LET sa1 == IF name \notin DOMAIN sa THEN MapPut(sa, name, EmptyMap) ELSE sa
        hp == IF id \in DOMAIN sa1[name] THEN sa1[name][id].hostPort ELSE hostPort
    IN  MapPut(sa1, name, MapPut(sa1[name], id, serviceInstance(hp, t)))

\* mutant of EnsureService: the per-service map is created anew on every call
EnsureServiceReset(sa, name, ok) == MapPut(sa, name, EmptyMap)

\* Register, lines 35-37: the per-service map is created when the lookup of
\* line 35 did not find it
EnsureService(sa, name, ok) ==
    IF ~ok THEN MapPut(sa, name, EmptyMap) ELSE sa

\* mutant of StoreInstance: an instance that exists keeps its address
StoreInstanceKeepAddr(sa, id, name, hostPort, t) ==
    MapPut(sa, name,
           MapPut(sa[name], id,
                  serviceInstance(IF id \in DOMAIN sa[name]
                                  THEN sa[name][id].hostPort ELSE hostPort, t)))

\* Register, lines 38-39
StoreInstance(sa, id, name, hostPort, t) ==
    MapPut(sa, name, MapPut(sa[name], id, serviceInstance(hostPort, t)))

\* Register, lines 35-39
RegisterMap(sa, id, name, hostPort, t) ==
    StoreInstance(EnsureService(sa, name, name \in DOMAIN sa),
                  id, name, hostPort, t)

\* mutant of DeregisterMap: the record is left in the map
DeregisterMapKeep(sa, id, name) == sa

\* mutant of DeregisterMap: delete(r.serviceAddrs, name), the whole service
DeregisterMapDropService(sa, id, name) ==
    IF name \notin DOMAIN sa THEN sa ELSE MapDelete(sa, name)

\* Deregister, lines 48-52
DeregisterMap(sa, id, name) ==
    IF name \notin DOMAIN sa THEN sa
    ELSE MapPut(sa, name, MapDelete(sa[name], id))

\* ReportHealthyState, lines 60-67: the error returned
ReportErr(sa, id, name) ==
    IF name \notin DOMAIN sa THEN ErrServiceNotRegistered
    ELSE IF id \notin DOMAIN sa[name] THEN ErrInstanceNotRegistered
    ELSE Nil

\* mutant of ReportMap: lastActive is not refreshed
ReportMapNoRefresh(sa, id, name, t) == sa

\* mutant of ReportMap: a heartbeat for a missing record creates it
ReportMapUpsert(sa, id, name, t) ==
    LET sa1 == IF name \notin DOMAIN sa THEN MapPut(sa, name, EmptyMap) ELSE sa
        hp == IF id \in DOMAIN sa1[name] THEN sa1[name][id].hostPort ELSE ""
    IN  MapPut(sa1, name, MapPut(sa1[name], id, serviceInstance(hp, t)))

\* mutant of ReportMap: a heartbeat for a stale record removes the record
ReportMapDropStale(sa, id, name, t) ==
    IF ReportErr(sa, id, name) # Nil THEN sa
    ELSE IF sa[name][id].lastActive < t - Window
         THEN MapPut(sa, name, MapDelete(sa[name], id))
         ELSE MapPut(sa, name,
                     MapPut(sa[name], id, [sa[name][id] EXCEPT !.lastActive = t]))

\* mutant of ReportMap: the record is replaced by a new one without address
ReportMapResetAddr(sa, id, name, t) ==
    IF ReportErr(sa, id, name) # Nil THEN sa
    ELSE MapPut(sa, name, MapPut(sa[name], id, serviceInstance("", t)))

\* ReportHealthyState, lines 60-67: the map it leaves
ReportMap(sa, id, name, t) ==
    IF ReportErr(sa, id, name) # Nil THEN sa
    ELSE MapPut(sa, name,
                MapPut(sa[name], id, [sa[name][id] EXCEPT !.lastActive = t]))

\* time.Time.Before
Before(t, u) == t < u

\* mutant of Stale: a record exactly Window old counts as stale
StaleAtEdge(inst, t) == inst.lastActive <= t - Window

\* line 80: i.lastActive.Before(time.Now().Add(-5 * time.Second))
Stale(inst, t) == Before(inst.lastActive, t - Window)

\* mutant of NoInstances: only a missing key counts, `_, ok := ...; !ok`
NoInstancesMissingKey(sa, name) == name \notin DOMAIN sa

\* line 75: len(r.serviceAddrs[name]) == 0
NoInstances(sa, name) == Cardinality(DOMAIN Instances(sa, name)) = 0

\* mutant of Visit: the `continue` is missing, every instance is appended
VisitNoFilter(res, inst, t) == Append(res, inst.hostPort)

\* lines 80-83, one iteration of the loop: res after visiting inst at clock t
Visit(res, inst, t) ==
    IF Stale(inst, t) THEN res ELSE Append(res, inst.hostPort)

\* lines 78-85: every outcome of the loop over the instances `todo` of m still
\* to visit. Go ranges over a map in any order, and reads time.Now() in every
\* iteration: res is the slice built, ids the instance that gave each entry,
\* t the clock when the loop ends.
RECURSIVE Range(_, _, _, _, _)
Range(m, todo, t, res, ids) ==
    IF todo = {} THEN {[res |-> res, ids |-> ids, t |-> t]}
    ELSE UNION { UNION { Range(m, todo \ {i}, u, Visit(res, m[i], u),
                               IF Len(Visit(res, m[i], u)) > Len(res)
                               THEN Append(ids, i) ELSE ids)
                         : u \in {v \in Clock : v >= t} }
                 : i \in todo }

-----------------------------------------------------------------------------
(* History *)

\* A returned call: its arguments, the error and the slice it returned; ids
\* names the instance behind each entry of res, at is the clock when a
\* ServiceAddresses returned, was tells what the call found under (name, id)
\* ("none", "fresh" or "stale"), again that the call before it was the same call.
NoCall == [op |-> "none", name |-> "", id |-> "", hostPort |-> "",
           err |-> Nil, res |-> <<>>, ids |-> <<>>, at |-> 0,
           was |-> "none", again |-> FALSE]

SameCall(c, d) ==
    c.op = d.op /\ c.name = d.name /\ c.id = d.id /\ c.hostPort = d.hostPort

\* the call c has returned
Returned(c) == last' = [c EXCEPT !.again = SameCall(c, last)]

\* what a call finds under (name, id)
Found(sa, name, id, t) ==
    IF ~HasRecord(sa, name, id) THEN "none"
    ELSE IF Stale(sa[name][id], t) THEN "stale" ELSE "fresh"

\* A write of a record: for a Register the address written, the clock it read
\* and the other address it replaced, if any; for a heartbeat the clock it read
\* and whether the record was stale.
NoWrite == [op |-> "none", hostPort |-> "", at |-> 0, was |-> "none"]

\* the concurrent callers of SpecConc
Procs == {"p1", "p2"}

\* A caller's call frame: pc is its position in the handler, err and res are
\* the handler's results, todo the instances its range loop has not visited,
\* t the clock a Register read, ok the result of its lookup; of a Register,
\* unknown records that the service had no per-service map when the call was
\* made, and peers the callers that were then inside the call they are still
\* in or have last returned from.
Idle == [pc |-> "idle", op |-> "none", name |-> "", id |-> "", hostPort |-> "",
         err |-> Nil, res |-> <<>>, todo |-> {}, t |-> 0, ok |-> FALSE,
         unknown |-> FALSE, peers |-> {}]

TypeOK ==
    /\ now \in Clock
    /\ DOMAIN serviceAddrs \subseteq Names
    /\ \A n \in DOMAIN serviceAddrs :
          /\ DOMAIN serviceAddrs[n] \subseteq IDs
          /\ \A i \in DOMAIN serviceAddrs[n] :
                /\ serviceAddrs[n][i].hostPort \in HostPorts
                /\ serviceAddrs[n][i].lastActive \in Clock
                /\ serviceAddrs[n][i].lastActive <= now

-----------------------------------------------------------------------------
(* The rating repository *)

\* Put, lines 39-42: the map it leaves. The lookup of line 39 is of recordID
\* in r.data[recordType] (a nil map when recordType is no key); when it fails
\* line 40 stores a new empty map under recordType.
PutData(d, recordID, recordType, r) ==
    LET ok == recordType \in DOMAIN d /\ recordID \in DOMAIN d[recordType]
        d1 == IF ~ok THEN MapPut(d, recordType, EmptyMap) ELSE d
        old == IF recordID \in DOMAIN d1[recordType]
               THEN d1[recordType][recordID] ELSE <<>>
    IN  MapPut(d1, recordType, MapPut(d1[recordType], recordID, Append(old, r)))

\* Get, lines 26-31: the error returned
GetErr(d, recordID, recordType) ==
    IF recordType \notin DOMAIN d THEN RepositoryErrNotFound
    ELSE IF recordID \notin DOMAIN d[recordType]
            \/ Len(d[recordType][recordID]) = 0
         THEN RepositoryErrNotFound
         ELSE Nil

\* Get, lines 26-32: the slice returned, nil with an error
GetRatings(d, recordID, recordType) ==
    IF GetErr(d, recordID, recordType) # Nil THEN <<>>
    ELSE d[recordType][recordID]

\* the ratings of the Puts of log for (recordType, recordID), in Put order
RECURSIVE EverPut(_, _, _)
EverPut(log, recordID, recordType) ==
    IF log = <<>> THEN <<>>
    ELSE LET e == log[Len(log)]
             rest == EverPut(SubSeq(log, 1, Len(log) - 1), recordID, recordType)
         IN  IF e.recordID = recordID /\ e.recordType = recordType
             THEN Append(rest, e.rating) ELSE rest

\* no Get has returned
NoGet == [called |-> FALSE, recordID |-> "", recordType |-> "",
          ratings |-> <<>>, err |-> Nil, put |-> <<>>]

\* New, line 19
InitRating ==
    /\ data = EmptyMap
    /\ puts = <<>>
    /\ got = NoGet

\* Put(ctx, recordID, recordType, rating), lines 36-44
Put ==
    /\ Len(puts) < MaxPuts
    /\ \E recordID \in RecordIDs, recordType \in RecordTypes, r \in Ratings :
          /\ data' = PutData(data, recordID, recordType, r)
          /\ puts' = Append(puts, [recordID |-> recordID,
                                   recordType |-> recordType, rating |-> r])
    /\ UNCHANGED <<got, registry>>

\* Get(ctx, recordID, recordType), lines 23-33; put is what the Puts before
\* it gave for the record
Get ==
    /\ \E recordID \in RecordIDs, recordType \in RecordTypes :
          got' = [called |-> TRUE, recordID |-> recordID,
                  recordType |-> recordType,
                  ratings |-> GetRatings(data, recordID, recordType),
                  err |-> GetErr(data, recordID, recordType),
                  put |-> EverPut(puts, recordID, recordType)]
    /\ UNCHANGED <<data, puts, registry>>

-----------------------------------------------------------------------------
(* Spec: one caller *)

\* NewRegistry, line 28
Init ==
    /\ serviceAddrs = EmptyMap
    /\ now = 0
    /\ last = NoCall
    /\ touched = [k \in Keys |-> NoWrite]
    /\ mu = [writer |-> "none", readers |-> {}]
    /\ calls = [p \in Procs |-> Idle]
    /\ InitRating

\* the clock advances
Tick ==
    /\ \E t \in Clock : t > now /\ now' = t
    /\ UNCHANGED <<serviceAddrs, last, touched, conc, rating>>

\* Register(ctx, id, name, hostPort), lines 32-41
Register ==
    \E k \in Keys, hostPort \in HostPorts :
        LET name == k[1]
            id == k[2]
        IN  /\ serviceAddrs' = RegisterMap(serviceAddrs, id, name, hostPort, now)
            /\ touched' = [touched EXCEPT ![k] =
                  [op |-> "Register", hostPort |-> hostPort, at |-> now,
                   was |-> IF HasRecord(serviceAddrs, name, id)
                              /\ serviceAddrs[name][id].hostPort # hostPort
                           THEN serviceAddrs[name][id].hostPort ELSE "none"]]
            /\ Returned([NoCall EXCEPT !.op = "Register", !.name = name,
                            !.id = id, !.hostPort = hostPort])
            /\ UNCHANGED <<now, conc, rating>>

\* Deregister(ctx, id, name), lines 45-53
Deregister ==
    \E k \in Keys :
        LET name == k[1]
            id == k[2]
        IN  /\ serviceAddrs' = DeregisterMap(serviceAddrs, id, name)
            /\ touched' = IF HasRecord(serviceAddrs, name, id)
                          THEN [touched EXCEPT ![k] =
                                   [NoWrite EXCEPT !.op = "Deregister"]]
                          ELSE touched
            /\ Returned([NoCall EXCEPT !.op = "Deregister", !.name = name,
                            !.id = id,
                            !.was = Found(serviceAddrs, name, id, now)])
            /\ UNCHANGED <<now, conc, rating>>

\* ReportHealthyState(id, name), lines 57-68
ReportHealthyState ==
    \E k \in Keys :
        LET name == k[1]
            id == k[2]
        IN  /\ serviceAddrs' = ReportMap(serviceAddrs, id, name, now)
            /\ touched' = IF HasRecord(serviceAddrs, name, id)
                          THEN [touched EXCEPT ![k] =
                                   [op |-> "ReportHealthyState",
                                    hostPort |-> touched[k].hostPort, at |-> now,
                                    was |-> Found(serviceAddrs, name, id, now)]]
                          ELSE touched
            /\ Returned([NoCall EXCEPT !.op = "ReportHealthyState",
                            !.name = name, !.id = id,
                            !.err = ReportErr(serviceAddrs, id, name),
                            !.was = Found(serviceAddrs, name, id, now)])
            /\ UNCHANGED <<now, conc, rating>>

\* mutant of Resolved: the stale records are deleted while filtering
ResolvedEvict(name, o) ==
    /\ now' = o.t
    /\ Returned([NoCall EXCEPT !.op = "ServiceAddresses", !.name = name,
                    !.res = o.res, !.ids = o.ids, !.at = o.t])
    /\ serviceAddrs' = MapPut(serviceAddrs, name,
          [i \in {j \in DOMAIN serviceAddrs[name] :
                     ~(serviceAddrs[name][j].lastActive < o.t - Window)}
             |-> serviceAddrs[name][i]])
    /\ UNCHANGED <<touched, conc, rating>>

\* ServiceAddresses(ctx, name), lines 78-85: the loop ends with outcome o
Resolved(name, o) ==
    /\ now' = o.t
    /\ Returned([NoCall EXCEPT !.op = "ServiceAddresses", !.name = name,
                    !.res = o.res, !.ids = o.ids, !.at = o.t])
    /\ UNCHANGED <<serviceAddrs, touched, conc, rating>>

\* ServiceAddresses(ctx, name), lines 72-86
ServiceAddresses ==
    \E name \in Names :
        IF NoInstances(serviceAddrs, name)
        THEN /\ Returned([NoCall EXCEPT !.op = "ServiceAddresses", !.name = name,
                             !.err = ErrNotFound, !.at = now])
             /\ UNCHANGED <<serviceAddrs, now, touched, conc, rating>>
        ELSE \E o \in Range(serviceAddrs[name], DOMAIN serviceAddrs[name],
                            now, <<>>, <<>>) :
                Resolved(name, o)

Next ==
    \/ Tick
    \/ Register
    \/ Deregister
    \/ ReportHealthyState
    \/ ServiceAddresses

Spec == Init /\ [][Next]_vars

\* the rating repository with one caller
RatingNext ==
    \/ Put
    \/ Get

SpecRating == Init /\ [][RatingNext]_vars

-----------------------------------------------------------------------------
(* SpecConc: concurrent callers *)

\* the callers of SpecConc work on one service
ConcNames == {"s1"}
ConcKeys == {k \in Keys : k[1] \in ConcNames}

\* the callers that are inside a call
InCall == {q \in Procs : calls[q].pc \notin {"idle", "returned"}}

\* caller p starts the call with frame c; its call before, if any, is over
Enter(p, c) ==
    calls' = [q \in Procs |->
                 IF q = p THEN c ELSE [calls[q] EXCEPT !.peers = @ \ {p}]]

\* a caller enters a handler with its arguments
Call(p) ==
    /\ calls[p].pc \in {"idle", "returned"}
    /\ \/ \E k \in ConcKeys, hostPort \in HostPorts :
             Enter(p, [Idle EXCEPT !.pc = "Lock", !.op = "Register",
                          !.name = k[1], !.id = k[2], !.hostPort = hostPort,
                          !.peers = InCall,
                          !.unknown = k[1] \notin DOMAIN serviceAddrs])
       \/ \E k \in ConcKeys, op \in {"Deregister", "ReportHealthyState"} :
             Enter(p, [Idle EXCEPT !.pc = "Lock", !.op = op, !.name = k[1],
                          !.id = k[2]])
       \/ \E name \in ConcNames :
             Enter(p, [Idle EXCEPT !.pc = "RLock", !.op = "ServiceAddresses",
                          !.name = name])
    /\ UNCHANGED <<serviceAddrs, now, last, touched, rating, mu>>

\* mutant of Lock: a sync.Mutex next to the readers' lock, readers are not
\* waited for
LockIgnoresReaders(p) ==
    /\ calls[p].pc = "Lock"
    /\ mu.writer = "none"
    /\ mu' = [mu EXCEPT !.writer = p]
    /\ calls' = [calls EXCEPT ![p].pc = "body"]
    /\ UNCHANGED <<serviceAddrs, now, last, touched, rating>>

\* mutant of Lock: the mutex is taken whoever holds it
LockNoExclusion(p) ==
    /\ calls[p].pc = "Lock"
    /\ mu' = [mu EXCEPT !.writer = p]
    /\ calls' = [calls EXCEPT ![p].pc = "body"]
    /\ UNCHANGED <<serviceAddrs, now, last, touched, rating>>

\* r.Lock(), lines 33, 46, 58: no writer and no reader holds the mutex
Lock(p) ==
    /\ calls[p].pc = "Lock"
    /\ mu.writer = "none"
    /\ mu.readers = {}
    /\ mu' = [mu EXCEPT !.writer = p]
    /\ calls' = [calls EXCEPT ![p].pc = "body"]
    /\ UNCHANGED <<serviceAddrs, now, last, touched, rating>>

\* Register under the lock, line 35: the lookup of the per-service map
RegisterLookup(p) ==
    LET c == calls[p] IN
    /\ c.pc = "body"
    /\ c.op = "Register"
    /\ calls' = [calls EXCEPT ![p].pc = "ensure",
                    ![p].ok = c.name \in DOMAIN serviceAddrs]
    /\ UNCHANGED <<serviceAddrs, now, last, touched, rating, mu>>

\* Register under the lock, lines 35-37
RegisterEnsure(p) ==
    LET c == calls[p] IN
    /\ c.pc = "ensure"
    /\ serviceAddrs' = EnsureService(serviceAddrs, c.name, c.ok)
    /\ calls' = [calls EXCEPT ![p].pc = "store"]
    /\ UNCHANGED <<now, last, touched, rating, mu>>

\* Register under the lock, lines 38-40
RegisterStore(p) ==
    LET c == calls[p] IN
    /\ c.pc = "store"
    /\ serviceAddrs' = StoreInstance(serviceAddrs, c.id, c.name, c.hostPort, now)
    /\ calls' = [calls EXCEPT ![p].pc = "Unlock", ![p].t = now]
    /\ UNCHANGED <<now, last, touched, rating, mu>>

\* Deregister under the lock, lines 48-52
DeregisterBody(p) ==
    LET c == calls[p] IN
    /\ c.pc = "body"
    /\ c.op = "Deregister"
    /\ serviceAddrs' = DeregisterMap(serviceAddrs, c.id, c.name)
    /\ calls' = [calls EXCEPT ![p].pc = "Unlock"]
    /\ UNCHANGED <<now, last, touched, rating, mu>>

\* ReportHealthyState under the lock, lines 60-67
ReportBody(p) ==
    LET c == calls[p] IN
    /\ c.pc = "body"
    /\ c.op = "ReportHealthyState"
    /\ serviceAddrs' = ReportMap(serviceAddrs, c.id, c.name, now)
    /\ calls' = [calls EXCEPT ![p].pc = "Unlock",
                    ![p].err = ReportErr(serviceAddrs, c.id, c.name)]
    /\ UNCHANGED <<now, last, touched, rating, mu>>

\* mutant of Unlock: no defer, the early return with an error keeps the mutex
UnlockLeak(p) ==
    /\ calls[p].pc = "Unlock"
    /\ mu' = IF calls[p].err # Nil THEN mu ELSE [mu EXCEPT !.writer = "none"]
    /\ calls' = [calls EXCEPT ![p].pc = "returned"]
    /\ UNCHANGED <<serviceAddrs, now, last, touched, rating>>

\* the deferred r.Unlock(), lines 34, 47, 59, and the return
Unlock(p) ==
    /\ calls[p].pc = "Unlock"
    /\ mu' = [mu EXCEPT !.writer = "none"]
    /\ calls' = [calls EXCEPT ![p].pc = "returned"]
    /\ UNCHANGED <<serviceAddrs, now, last, touched, rating>>

\* mutant of RLock: the read lock is taken while a writer holds the mutex
RLockNoExclusion(p) ==
    /\ calls[p].pc = "RLock"
    /\ mu' = [mu EXCEPT !.readers = @ \cup {p}]
    /\ calls' = [calls EXCEPT ![p].pc = "len"]
    /\ UNCHANGED <<serviceAddrs, now, last, touched, rating>>

\* r.RLock(), line 73: no writer holds the mutex
RLock(p) ==
    /\ calls[p].pc = "RLock"
    /\ mu.writer = "none"
    /\ mu' = [mu EXCEPT !.readers = @ \cup {p}]
    /\ calls' = [calls EXCEPT ![p].pc = "len"]
    /\ UNCHANGED <<serviceAddrs, now, last, touched, rating>>

\* lines 75-78: ErrNotFound, or the range loop starts
CheckLen(p) ==
    LET c == calls[p] IN
    /\ c.pc = "len"
    /\ calls' = IF NoInstances(serviceAddrs, c.name)
                THEN [calls EXCEPT ![p].pc = "RUnlock", ![p].err = ErrNotFound]
                ELSE [calls EXCEPT ![p].pc = "range",
                                   ![p].todo = DOMAIN serviceAddrs[c.name]]
    /\ UNCHANGED <<serviceAddrs, now, last, touched, rating, mu>>

\* lines 79-85: one iteration of the loop, or its end
RangeStep(p) ==
    LET c == calls[p] IN
    /\ c.pc = "range"
    /\ IF c.todo = {}
       THEN calls' = [calls EXCEPT ![p].pc = "RUnlock"]
       ELSE \E i \in c.todo :
               calls' = [calls EXCEPT
                   ![p].todo = @ \ {i},
                   ![p].res = Visit(@, serviceAddrs[c.name][i], now)]
    /\ UNCHANGED <<serviceAddrs, now, last, touched, rating, mu>>

\* the deferred r.RUnlock(), line 74, and the return
RUnlock(p) ==
    /\ calls[p].pc = "RUnlock"
    /\ mu' = [mu EXCEPT !.readers = @ \ {p}]
    /\ calls' = [calls EXCEPT ![p].pc = "returned"]
    /\ UNCHANGED <<serviceAddrs, now, last, touched, rating>>

\* the clock advances
ConcTick ==
    /\ \E t \in Clock : t > now /\ now' = t
    /\ UNCHANGED <<serviceAddrs, last, touched, rating, mu, calls>>

ConcNext ==
    \/ ConcTick
    \/ \E p \in Procs :
          \/ Call(p)
          \/ Lock(p)
          \/ RegisterLookup(p)
          \/ RegisterEnsure(p)
          \/ RegisterStore(p)
          \/ DeregisterBody(p)
          \/ ReportBody(p)
          \/ Unlock(p)
          \/ RLock(p)
          \/ CheckLen(p)
          \/ RangeStep(p)
          \/ RUnlock(p)

SpecConc == Init /\ [][ConcNext]_vars

-----------------------------------------------------------------------------
(* SpecLive: SpecConc with a fair scheduler *)

\* a step of caller p that holds the mutex, up to its return
Running(p) ==
    \/ RegisterLookup(p)
    \/ RegisterEnsure(p)
    \/ RegisterStore(p)
    \/ DeregisterBody(p)
    \/ ReportBody(p)
    \/ Unlock(p)
    \/ CheckLen(p)
    \/ RangeStep(p)
    \/ RUnlock(p)

\* the steps of the callers; no handler waits for the clock, which stays as
\* it is
LiveNext ==
    \E p \in Procs :
        \/ Call(p)
        \/ Lock(p)
        \/ RLock(p)
        \/ Running(p)

\* A caller inside a handler keeps running, and a caller that waits for the
\* mutex gets it if the mutex is free again and again (sync.Mutex hands the
\* lock to a starving waiter; a waiting writer holds back new readers).
SpecLive ==
    /\ Init
    /\ [][LiveNext]_vars
    /\ \A p \in Procs :
          /\ WF_vars(Running(p))
          /\ SF_vars(Lock(p))
          /\ SF_vars(RLock(p))

-----------------------------------------------------------------------------
(* Properties of Spec *)

\* the instance id contributed an entry of the slice the last call returned
Included(id) == \E j \in 1 .. Len(last.ids) : last.ids[j] = id

\* the instance id contributed the entry hostPort, and no other entry
IncludedAs(id, hostPort) ==
    /\ Included(id)
    /\ \A j \in 1 .. Len(last.ids) : last.ids[j] = id => last.res[j] = hostPort
    /\ Cardinality({j \in 1 .. Len(last.ids) : last.ids[j] = id}) = 1

\* the keys of the service the last call named
KeysOfLast == {k \in Keys : k[1] = last.name}

\* the keys of s whose record was written and not removed, by the history
Written(s) == {k \in Keys : k[1] = s /\ touched[k].op \in {"Register", "ReportHealthyState"}}

\* C1: a ServiceAddresses(s) called when s has records and every one of them
\* is stale (written more than Window before the call) fails with ErrNotFound,
\* as it does for a name never registered.
C1_AllStaleIsNotFound ==
    [][(last'.op = "ServiceAddresses" /\ last' # last
          /\ Written(last'.name) # {}
          /\ \A k \in Written(last'.name) : touched[k].at + Window < now)
       => last'.err = ErrNotFound]_vars

\* C2, as claimed: after Register(s, i, a) at T, with no later Register,
\* heartbeat or Deregister of (s, i), a ServiceAddresses(s) that ends before
\* T + Window includes a, and one that starts at or after T + Window (T + Window
\* itself included) excludes the instance.
C2_EdgeExcluded ==
    [][\A k \in Keys :
          (last'.op = "ServiceAddresses" /\ last' # last /\ last'.name = k[1]
             /\ touched[k].op = "Register")
          => /\ now' < touched[k].at + Window
                   => IncludedAs(k[2], touched[k].hostPort)'
             /\ now >= touched[k].at + Window => ~Included(k[2])']_vars

\* C2, amended: the instance is included up to and including T + Window, and
\* excluded only after it: "older than the window" is strict.
C2_EdgeIncluded ==
    [][\A k \in Keys :
          (last'.op = "ServiceAddresses" /\ last' # last /\ last'.name = k[1]
             /\ touched[k].op = "Register")
          => /\ now' <= touched[k].at + Window
                   => IncludedAs(k[2], touched[k].hostPort)'
             /\ now > touched[k].at + Window => ~Included(k[2])']_vars

\* a ServiceAddresses run exactly at the window edge of a Register returned
\* the registered address
C2_Witness ==
    \E k \in KeysOfLast :
        /\ last.op = "ServiceAddresses"
        /\ touched[k].op = "Register"
        /\ last.at = touched[k].at + Window
        /\ IncludedAs(k[2], touched[k].hostPort)

\* C3: a ServiceAddresses(s) that returns with the clock still at the reading
\* of a Register(s, i, a), the record not written since, succeeds and
\* returns a.
C3_RegisterThenResolve ==
    \A k \in KeysOfLast :
        (last.op = "ServiceAddresses" /\ touched[k].op = "Register"
           /\ touched[k].at = last.at)
        => last.err = Nil /\ IncludedAs(k[2], touched[k].hostPort)

\* a Register late on the clock, resolved at once
C3_Witness ==
    \E k \in KeysOfLast :
        /\ last.op = "ServiceAddresses"
        /\ touched[k].op = "Register"
        /\ touched[k].at = last.at
        /\ last.at > Window
        /\ last.err = Nil
        /\ IncludedAs(k[2], touched[k].hostPort)

\* C4: a heartbeat for a stale record succeeds, and a ServiceAddresses that
\* returns with the clock still at the heartbeat's reading succeeds and
\* returns the registered address again.
C4_StaleRevived ==
    /\ (last.op = "ReportHealthyState" /\ last.was = "stale") => last.err = Nil
    /\ \A k \in KeysOfLast :
          (last.op = "ServiceAddresses" /\ touched[k].op = "ReportHealthyState"
             /\ touched[k].was = "stale" /\ touched[k].at = last.at)
          => last.err = Nil /\ IncludedAs(k[2], touched[k].hostPort)

\* a record registered as a1 went stale, got a heartbeat and resolves again
C4_Witness ==
    \E k \in KeysOfLast :
        /\ last.op = "ServiceAddresses"
        /\ touched[k].op = "ReportHealthyState"
        /\ touched[k].was = "stale"
        /\ touched[k].at = last.at
        /\ touched[k].hostPort = "a1"
        /\ last.res = <<"a1">>

\* C5: a ServiceAddresses(s) when every instance of s that was ever registered
\* has been deregistered fails with ErrNotFound, as it does for a name never
\* registered.
C5_EmptyIsNotFound ==
    (last.op = "ServiceAddresses"
       /\ \A k \in KeysOfLast : touched[k].op \in {"none", "Deregister"})
    => last.err = ErrNotFound /\ last.res = <<>>

\* the per-service map of s exists, emptied by a Deregister, and
\* ServiceAddresses(s) returned ErrNotFound
C5_Witness ==
    /\ last.op = "ServiceAddresses"
    /\ last.err = ErrNotFound
    /\ last.name \in DOMAIN serviceAddrs
    /\ \E k \in KeysOfLast : touched[k].op = "Deregister"
    /\ \A k \in KeysOfLast : touched[k].op \in {"none", "Deregister"}

\* C6: a heartbeat for a pair without a record returns one of the two
\* "not registered" errors and leaves the registry as it was.
C6_HeartbeatUnknown ==
    [][(last'.op = "ReportHealthyState" /\ last'.was = "none")
       => /\ last'.err \in {ErrServiceNotRegistered, ErrInstanceNotRegistered}
          /\ serviceAddrs' = serviceAddrs
          /\ ~HasRecord(serviceAddrs', last'.name, last'.id)]_vars

\* a heartbeat for an unregistered instance of a service with another instance
C6_Witness ==
    /\ last.op = "ReportHealthyState"
    /\ last.was = "none"
    /\ last.err = ErrInstanceNotRegistered
    /\ DOMAIN Instances(serviceAddrs, last.name) # {}

\* C7: a Deregister for a pair without a record succeeds and leaves the
\* registry as it was; so does a Deregister that repeats the call before it.
C7_DeregisterUnknown ==
    [][(last'.op = "Deregister" /\ (last'.was = "none" \/ last'.again))
       => /\ last'.err = Nil
          /\ serviceAddrs' = serviceAddrs]_vars

\* the same Deregister twice, another instance of the service being registered
C7_Witness ==
    /\ last.op = "Deregister"
    /\ last.again
    /\ last.was = "none"
    /\ touched[<<last.name, last.id>>].op = "Deregister"
    /\ DOMAIN Instances(serviceAddrs, last.name) # {}

\* C8: after a Register(s, i, a2) that replaced the address a1 of (s, i), a
\* ServiceAddresses(s) within the window of that Register returns a2 for i,
\* once, and returns a1 only for other instances registered as a1.
C8_SecondAddressOnly ==
    \A k \in KeysOfLast :
        (last.op = "ServiceAddresses" /\ touched[k].op = "Register"
           /\ touched[k].was \in HostPorts
           /\ last.at <= touched[k].at + Window)
        => /\ last.err = Nil
           /\ IncludedAs(k[2], touched[k].hostPort)
           /\ touched[k].hostPort # touched[k].was
           /\ \A j \in 1 .. Len(last.res) :
                 last.res[j] = touched[k].was
                 => /\ last.ids[j] # k[2]
                    /\ touched[<<last.name, last.ids[j]>>].hostPort = touched[k].was

\* (s, i) registered as a1, then as a2: ServiceAddresses(s) returns a2 alone
C8_Witness ==
    \E k \in KeysOfLast :
        /\ last.op = "ServiceAddresses"
        /\ touched[k].op = "Register"
        /\ touched[k].was = "a1"
        /\ touched[k].hostPort = "a2"
        /\ last.res = <<"a2">>

\* C10: ServiceAddresses leaves the registry as it was, whatever it returns.
C10_ResolveReadOnly ==
    [][last'.op = "ServiceAddresses" => serviceAddrs' = serviceAddrs]_vars

\* ServiceAddresses succeeded, filtered a stale record, and the record is
\* still stored
C10_Witness ==
    /\ last.op = "ServiceAddresses"
    /\ last.err = Nil
    /\ last.res # <<>>
    /\ \E i \in DOMAIN Instances(serviceAddrs, last.name) :
          /\ ~Included(i)
          /\ Stale(serviceAddrs[last.name][i], last.at)

\* the instances of service s whose record is at most Window old at clock t
FreshAt(s, t) ==
    {i \in DOMAIN Instances(serviceAddrs, s) :
        serviceAddrs[s][i].lastActive + Window >= t}

\* how many entries of the slice res are the address h
CountOf(res, h) == Cardinality({j \in 1 .. Len(res) : res[j] = h})

\* C11: a ServiceAddresses(s) that succeeds returns, for every address, one
\* entry per record of s that has it and is within the window when the call
\* returns, and no more entries than s has such records within the window
\* when it is called: nothing for a stale record or a record of another
\* service. Called and returned at one clock reading, its result is exactly
\* the addresses of the fresh records of s.
C11_ExactlyTheFresh ==
    [][(last'.op = "ServiceAddresses" /\ last' # last /\ last'.err = Nil)
       => \A h \in HostPorts \cup {""} :
             /\ CountOf(last'.res, h) >=
                  Cardinality({i \in FreshAt(last'.name, now') :
                                  serviceAddrs[last'.name][i].hostPort = h})
             /\ CountOf(last'.res, h) <=
                  Cardinality({i \in FreshAt(last'.name, now) :
                                  serviceAddrs[last'.name][i].hostPort = h})]_vars

\* s1 has a fresh and a stale record, s2 has a record, and ServiceAddresses(s1)
\* returned the one fresh address
C11_Witness ==
    /\ last.op = "ServiceAddresses"
    /\ last.err = Nil
    /\ last.name = "s1"
    /\ Cardinality(DOMAIN Instances(serviceAddrs, "s1")) = 2
    /\ Cardinality(FreshAt("s1", last.at)) = 1
    /\ Len(last.res) = 1
    /\ DOMAIN Instances(serviceAddrs, "s2") # {}

\* C12: a heartbeat for a pair whose record a Deregister removed, with no
\* Register of the pair since, returns a "not registered" error and does not
\* store a record, whether or not the service has other instances.
C12_HeartbeatAfterDeregister ==
    [][(last'.op = "ReportHealthyState"
          /\ touched[<<last'.name, last'.id>>].op = "Deregister")
       => /\ last'.err \in {ErrServiceNotRegistered, ErrInstanceNotRegistered}
          /\ ~HasRecord(serviceAddrs', last'.name, last'.id)
          /\ touched' = touched]_vars

\* a heartbeat for a deregistered instance of a service that has another one
C12_Witness ==
    /\ last.op = "ReportHealthyState"
    /\ touched[<<last.name, last.id>>].op = "Deregister"
    /\ last.err = ErrInstanceNotRegistered
    /\ DOMAIN Instances(serviceAddrs, last.name) # {}

\* C15: a record is stored under (s, i) exactly when the last of the Registers
\* and Deregisters of (s, i) is a Register, and its address is the one that
\* Register gave; heartbeats and ServiceAddresses do not change which records
\* are stored.
C15_StoredIffRegistered ==
    /\ \A n \in Names, i \in IDs :
          HasRecord(serviceAddrs, n, i)
          <=> /\ <<n, i>> \in Keys
              /\ touched[<<n, i>>].op \in {"Register", "ReportHealthyState"}
    /\ \A k \in Keys :
          HasRecord(serviceAddrs, k[1], k[2])
          => serviceAddrs[k[1]][k[2]].hostPort = touched[k].hostPort

\* one pair registered and kept alive by a heartbeat, another registered and
\* deregistered
C15_Witness ==
    \E k, g \in Keys :
        /\ touched[k].op = "ReportHealthyState"
        /\ touched[k].was = "stale"
        /\ HasRecord(serviceAddrs, k[1], k[2])
        /\ touched[g].op = "Deregister"
        /\ ~HasRecord(serviceAddrs, g[1], g[2])

\* the records stored
Stored(sa) == {<<n, i>> \in Names \X IDs : HasRecord(sa, n, i)}

\* C16: a heartbeat that succeeds sets the lastActive of its record to the
\* clock, keeps the record's address, and leaves every other record and the
\* set of stored records as they were.
C16_HeartbeatOnlyRefreshes ==
    [][(last'.op = "ReportHealthyState" /\ last'.err = Nil
          /\ (last' # last \/ touched' # touched))
       => /\ Stored(serviceAddrs') = Stored(serviceAddrs)
          /\ \A k \in Stored(serviceAddrs) :
                /\ serviceAddrs'[k[1]][k[2]].hostPort
                      = serviceAddrs[k[1]][k[2]].hostPort
                /\ serviceAddrs'[k[1]][k[2]].lastActive
                      = IF k = <<last'.name, last'.id>> THEN now
                        ELSE serviceAddrs[k[1]][k[2]].lastActive
          /\ DOMAIN serviceAddrs' = DOMAIN serviceAddrs]_vars

\* a heartbeat late on the clock refreshed one of three stored records
C16_Witness ==
    /\ last.op = "ReportHealthyState"
    /\ last.err = Nil
    /\ now > Window
    /\ Cardinality(Stored(serviceAddrs)) = 3
    /\ serviceAddrs[last.name][last.id].lastActive = now
    /\ \E k \in Stored(serviceAddrs) : serviceAddrs[k[1]][k[2]].lastActive = 0

\* C19: a Register, Deregister or heartbeat of (s, i) leaves every record of
\* another pair as it was - stored or not, with its address and lastActive -
\* be it another instance of s or a record of another service.
C19_KeyIsolation ==
    [][(last'.op \in {"Register", "Deregister", "ReportHealthyState"})
       => \A k \in (Names \X IDs) \ {<<last'.name, last'.id>>} :
             /\ HasRecord(serviceAddrs', k[1], k[2])
                   <=> HasRecord(serviceAddrs, k[1], k[2])
             /\ HasRecord(serviceAddrs, k[1], k[2])
                   => serviceAddrs'[k[1]][k[2]] = serviceAddrs[k[1]][k[2]]]_vars

\* a Register under s2, which holds that one record, the two instances of s1
\* being stored
C19_Witness ==
    /\ last.op = "Register"
    /\ last.name = "s2"
    /\ touched[<<"s2", "i1">>].was = "none"
    /\ Cardinality(DOMAIN Instances(serviceAddrs, "s1")) = 2
    /\ Cardinality(DOMAIN Instances(serviceAddrs, "s2")) = 1

-----------------------------------------------------------------------------
(* Properties of SpecConc *)

\* the calls of p and q overlapped: one was made while the other was running
Overlapped(p, q) == q \in calls[p].peers \/ p \in calls[q].peers

\* two callers have returned from overlapping Registers of two instances of
\* one service
BothRegistered(p, q) ==
    /\ p # q
    /\ calls[p].pc = "returned" /\ calls[p].op = "Register"
    /\ calls[q].pc = "returned" /\ calls[q].op = "Register"
    /\ calls[p].name = calls[q].name
    /\ calls[p].id # calls[q].id
    /\ Overlapped(p, q)

\* the outcome o of ServiceAddresses has the entry hostPort for instance id
Returns(o, id, hostPort) ==
    \E j \in 1 .. Len(o.ids) : o.ids[j] = id /\ o.res[j] = hostPort

\* C9: when the callers have returned from concurrent Registers of distinct
\* instances of one service, the record of each is stored, with its address
\* and the clock it read, and every ServiceAddresses of the service that ends
\* within the window of both returns both addresses.
C9_NoLostRegistration ==
    \A p, q \in Procs :
        BothRegistered(p, q) =>
            LET c == calls[p]
                d == calls[q]
            IN  /\ HasRecord(serviceAddrs, c.name, c.id)
                /\ HasRecord(serviceAddrs, d.name, d.id)
                /\ serviceAddrs[c.name][c.id] = serviceInstance(c.hostPort, c.t)
                /\ serviceAddrs[d.name][d.id] = serviceInstance(d.hostPort, d.t)
                /\ ~NoInstances(serviceAddrs, c.name)
                /\ \A o \in Range(serviceAddrs[c.name],
                                  DOMAIN serviceAddrs[c.name], now, <<>>, <<>>) :
                      (o.t <= c.t + Window /\ o.t <= d.t + Window)
                      => /\ Returns(o, c.id, c.hostPort)
                         /\ Returns(o, d.id, d.hostPort)
                         /\ Len(o.res) = 2

\* both Registers were called while the service had no per-service map
C9_Witness ==
    \E p, q \in Procs :
        /\ BothRegistered(p, q)
        /\ calls[p].unknown
        /\ calls[q].unknown
        /\ now <= calls[p].t + Window
        /\ now <= calls[q].t + Window

\* caller p is between r.Lock() and the deferred r.Unlock()
Writing(p) ==
    /\ calls[p].op \in {"Register", "Deregister", "ReportHealthyState"}
    /\ calls[p].pc \in {"body", "ensure", "store", "Unlock"}

\* caller p is between r.RLock() and the deferred r.RUnlock()
Reading(p) ==
    /\ calls[p].op = "ServiceAddresses"
    /\ calls[p].pc \in {"len", "range", "RUnlock"}

\* C13: while a caller is between Lock and Unlock of Register, Deregister or
\* ReportHealthyState, no other caller is between Lock and Unlock or between
\* RLock and RUnlock; only callers of ServiceAddresses are inside together.
C13_MutualExclusion ==
    \A p, q \in Procs :
        (p # q /\ Writing(p)) => (~Writing(q) /\ ~Reading(q))

\* a Register is about to store its record while a ServiceAddresses waits for
\* the mutex
C13_Witness ==
    \E p, q \in Procs :
        /\ calls[p].pc = "store"
        /\ calls[q].pc = "RLock"

\* two callers have returned from overlapping Registers of one instance with
\* two addresses
BothRegisteredSame(p, q) ==
    /\ p # q
    /\ calls[p].pc = "returned" /\ calls[p].op = "Register"
    /\ calls[q].pc = "returned" /\ calls[q].op = "Register"
    /\ calls[p].name = calls[q].name
    /\ calls[p].id = calls[q].id
    /\ calls[p].hostPort # calls[q].hostPort
    /\ Overlapped(p, q)

\* C14: when the callers have returned from concurrent Registers of one
\* (name, id) with different addresses, the record stored is the address and
\* the clock reading of one of the two calls, never the address of one with
\* the clock reading of the other, and its lastActive is the later reading.
C14_OneRegistrationWins ==
    \A p, q \in Procs :
        BothRegisteredSame(p, q) =>
            LET c == calls[p]
                d == calls[q]
            IN  /\ HasRecord(serviceAddrs, c.name, c.id)
                /\ serviceAddrs[c.name][c.id]
                      \in {serviceInstance(c.hostPort, c.t),
                           serviceInstance(d.hostPort, d.t)}
                /\ serviceAddrs[c.name][c.id].lastActive
                      = IF c.t >= d.t THEN c.t ELSE d.t

\* the clock advanced between the two stores
C14_Witness ==
    \E p, q \in Procs :
        /\ BothRegisteredSame(p, q)
        /\ calls[p].t < calls[q].t
        /\ serviceAddrs[calls[q].name][calls[q].id].hostPort = calls[q].hostPort

\* the result in frame c is one ServiceAddresses gives on the registry sa when
\* it ends at clock t or before
ResultOn(c, sa, t) ==
    IF NoInstances(sa, c.name) THEN c.err = ErrNotFound
    ELSE /\ c.err = Nil
         /\ \E o \in Range(sa[c.name], DOMAIN sa[c.name], 0, <<>>, <<>>) :
               o.t <= t /\ o.res = c.res

\* C18: the registry does not change while a ServiceAddresses is between RLock
\* and RUnlock, and the result it is about to return is a result of
\* ServiceAddresses on that one registry: calls that run concurrently are
\* reflected wholly or not at all.
C18_ResolveAtomic ==
    [][/\ (\E p \in Procs : Reading(p)) => serviceAddrs' = serviceAddrs
       /\ \A p \in Procs :
             (calls'[p].op = "ServiceAddresses" /\ calls'[p].pc = "RUnlock")
             => ResultOn(calls'[p], serviceAddrs, now')]_vars

\* a ServiceAddresses is about to return two addresses while a Register or
\* Deregister waits for the mutex
C18_Witness ==
    \E p, q \in Procs :
        /\ calls[p].op = "ServiceAddresses"
        /\ calls[p].pc = "RUnlock"
        /\ Len(calls[p].res) = 2
        /\ calls[q].pc = "Lock"
        /\ calls[q].op \in {"Register", "Deregister"}

-----------------------------------------------------------------------------
(* Properties of SpecLive *)

\* caller p holds the mutex
Holds(p) == mu.writer = p \/ p \in mu.readers

\* C17: every call that was made returns, and when it has returned its caller
\* does not hold the mutex, on the error paths too: no caller waits for ever.
C17_EveryCallReturns ==
    \A p \in Procs :
        (calls[p].pc \notin {"idle", "returned"})
        ~> (calls[p].pc = "returned" /\ ~Holds(p))

\* a heartbeat has returned with an error and the other caller, which waited
\* for the mutex, is inside its handler
C17_Witness ==
    \E p, q \in Procs :
        /\ calls[p].pc = "returned"
        /\ calls[p].op = "ReportHealthyState"
        /\ calls[p].err # Nil
        /\ p \in calls[q].peers
        /\ calls[q].pc = "Unlock"

-----------------------------------------------------------------------------
(* Properties of SpecRating *)

\* C20: a Get returns exactly the ratings of the Puts made before it for its
\* (recordType, recordID), in Put order - ErrNotFound when there was none: a
\* Put for another record ID takes nothing away.
C20_GetReturnsEveryPut ==
    got.called
    => IF got.put = <<>> THEN got.err = RepositoryErrNotFound
       ELSE got.err = Nil /\ got.ratings = got.put

====
